---- MODULE Spec2Model ----
(***************************************************************************)
(* ModelManager of retinonet_backend/model_manager.py: lazy / background   *)
(* loading of the inference model, with a pickle cache on disk.            *)
(*                                                                         *)
(* Request threads (the startup hook, the handlers' background tasks, the  *)
(* /predict/ and /status handlers) call load_model_in_background(),        *)
(* get_model() and is_model_loaded().  load_model_in_background() creates  *)
(* Thread objects that run _load_model().  Every statement that reads or   *)
(* writes a field of the manager, the lock or the file system is one step. *)
(*                                                                         *)
(* Calls are numbered in the order they are issued, each on a thread of    *)
(* its own (a call issued after another returned covers one thread making  *)
(* both).  Worker(c) is the Thread object call c creates, if it does.      *)
(***************************************************************************)
EXTENDS Integers, FiniteSets, Sequences, TLC

\* ------------------------------------------------------------------ bounds
MaxCalls == 2       \* get_model / load_model_in_background calls issued

Callers == 1..MaxCalls
Worker(c) == MaxCalls + c
Workers == {Worker(c) : c \in Callers}
Threads == Callers \cup Workers

NoThread == 0       \* loading_thread is None / the lock is free
NoModel == 0        \* model is None
PreHandle == MaxCalls + 2   \* the handle pickled in a pre-populated cache file

Absent == [kind |-> "absent", handle |-> NoModel]
Corrupt == [kind |-> "corrupt", handle |-> NoModel]
Pickled(h) == [kind |-> "valid", handle |-> h]

\* HTTP responses of the /predict/ handler: the status code and what caused it
NoResponse == [code |-> "none", why |-> "none"]
Response(code, why) == [code |-> code, why |-> why]

Pending == [st |-> "pending", handle |-> NoModel]
Returned(h) == [st |-> "returned", handle |-> h]
Raised == [st |-> "raised", handle |-> NoModel]

VARIABLES
    model,              \* self.model
    model_loaded,       \* self.model_loaded
    loading_lock,       \* self.loading_lock: the thread holding it, or NoThread
    loading_thread,     \* self.loading_thread: a worker, or NoThread
    last_access_time,   \* self.last_access_time
    source_exists,      \* os.path.exists(self.model_path)
    cache,              \* the file at self.cache_path
    pc,                 \* each thread's position
    op,                 \* the operation each call runs
    ret,                \* what it returned
    ctx,                \* the manager as the call found it
    answer,             \* what the last is_model_loaded() returned
    status,             \* the HTTP response of each /predict/ request
    outcome,            \* how each thread's _load_model run ended
    did,                \* what that run did: cache read, exists check, loader, cache write
    loaderCalls,        \* invocations of models.load_model
    loaderFails,        \* ... that raised
    cacheWrites,        \* invocations of _save_to_cache
    calls,              \* get_model / load_model_in_background calls issued
    burst,              \* every such call was issued while unloaded, before any returned
    source0,            \* the source file existed at construction
    cache0              \* the cache file at construction

manager == <<model, model_loaded, loading_lock, loading_thread, last_access_time>>
files == <<source_exists, cache>>
ghost == <<loaderCalls, loaderFails, cacheWrites, calls, burst, source0, cache0>>
vars == <<model, model_loaded, loading_lock, loading_thread, last_access_time,
          source_exists, cache, pc, op, ret, ctx, answer, status, outcome, did,
          loaderCalls, loaderFails, cacheWrites, calls, burst, source0, cache0>>

\* thread t's _load_model run is over and found no source file
Missed(t) == outcome[t] = "missing" /\ pc[t] \in {"gm_ret", "done", "finished"}

NoCtx == [loaded |-> FALSE, locked |-> FALSE, source |-> FALSE, missed |-> FALSE]
Ctx == [loaded |-> model_loaded, locked |-> loading_lock # NoThread,
        source |-> source_exists, missed |-> \E t \in Threads : Missed(t)]

\* time.time(): a clock that ticks with every call issued
Time == calls

\* __init__: nothing loaded, lock free, no thread; the files are as the deployment left them
Init ==
    /\ model = NoModel
    /\ model_loaded = FALSE
    /\ loading_lock = NoThread
    /\ loading_thread = NoThread
    /\ last_access_time = 0
    /\ source_exists \in BOOLEAN
    /\ cache \in {Absent, Corrupt, Pickled(PreHandle)}
    /\ pc = [t \in Threads |-> IF t \in Callers THEN "unissued" ELSE "unborn"]
    /\ op = [c \in Callers |-> "none"]
    /\ ret = [c \in Callers |-> Pending]
    /\ ctx = [c \in Callers |-> NoCtx]
    /\ answer = "none"
    /\ status = [c \in Callers |-> NoResponse]
    /\ outcome = [t \in Threads |-> "none"]
    /\ did = [t \in Threads |-> {}]
    /\ loaderCalls = 0
    /\ loaderFails = 0
    /\ cacheWrites = 0
    /\ calls = 0
    /\ burst = TRUE
    /\ source0 = source_exists
    /\ cache0 = cache

\* Thread.is_alive(): started and run() not finished
IsAlive(w) == w \in Workers /\ pc[w] \notin {"unborn", "new", "finished"}
\* Thread._started is set
Started(w) == w \in Workers /\ pc[w] \notin {"unborn", "new"}

\* a call issued now joins the calls issued so far: unloaded, none has returned
Concurrent == ~model_loaded /\ \A c \in Callers : pc[c] # "done"

\* where a thread goes when _load_model returns
AfterLoad(t) == IF t \in Callers THEN "gm_ret" ELSE "finished"

Goto(t, l) == pc' = [pc EXCEPT ![t] = l]

\* ------------------------------------------------------------ _load_model
\* line 43: if self.model_loaded: return
LM_Check(t) ==
    /\ pc[t] = "lm_check"
    /\ IF model_loaded
       THEN /\ Goto(t, AfterLoad(t))
            /\ outcome' = [outcome EXCEPT ![t] = "skip"]
       ELSE /\ Goto(t, "lm_lock")
            /\ UNCHANGED outcome
    /\ UNCHANGED <<manager, files, op, ret, ctx, answer, status, did, ghost>>

\* an acquire that does not wait for the holder
LM_LockNoWait(t) ==
    /\ pc[t] = "lm_lock"
    /\ loading_lock' = t
    /\ Goto(t, "lm_recheck")
    /\ UNCHANGED <<model, model_loaded, loading_thread, last_access_time, files,
                   op, ret, ctx, answer, status, outcome, did, ghost>>

\* line 46: with self.loading_lock (acquire; blocks while another thread holds it)
LM_Lock(t) ==
    /\ pc[t] = "lm_lock"
    /\ loading_lock = NoThread
    /\ loading_lock' = t
    /\ Goto(t, "lm_recheck")
    /\ UNCHANGED <<model, model_loaded, loading_thread, last_access_time, files,
                   op, ret, ctx, answer, status, outcome, did, ghost>>

\* a double check that tests nothing
LM_RecheckOmitted(t) ==
    /\ pc[t] = "lm_recheck"
    /\ Goto(t, "lm_cache")
    /\ UNCHANGED <<manager, files, op, ret, ctx, answer, status, outcome, did, ghost>>

\* lines 47-48: if self.model_loaded: return (double check, lock held)
LM_Recheck(t) ==
    /\ pc[t] = "lm_recheck"
    /\ IF model_loaded
       THEN /\ Goto(t, "lm_unlock")
            /\ outcome' = [outcome EXCEPT ![t] = "skip"]
       ELSE /\ Goto(t, "lm_cache")
            /\ UNCHANGED outcome
    /\ UNCHANGED <<manager, files, op, ret, ctx, answer, status, did, ghost>>

\* _load_from_cache answering True for a file it could not unpickle
LM_CacheErrorIsHit(t) ==
    /\ pc[t] = "lm_cache"
    /\ did' = [did EXCEPT ![t] = @ \cup {"read"}]
    /\ IF cache.kind = "absent"
       THEN /\ Goto(t, "lm_exists")
            /\ UNCHANGED model
       ELSE /\ Goto(t, "lm_mark")
            /\ model' = IF cache.kind = "valid" THEN cache.handle ELSE model
    /\ UNCHANGED <<model_loaded, loading_lock, loading_thread, last_access_time,
                   files, op, ret, ctx, answer, status, outcome, ghost>>

\* a cache hit that still goes on to the source file
LM_CacheFallsThrough(t) ==
    /\ pc[t] = "lm_cache"
    /\ did' = [did EXCEPT ![t] = @ \cup {"read"}]
    /\ Goto(t, "lm_exists")
    /\ model' = IF cache.kind = "valid" THEN cache.handle ELSE model
    /\ UNCHANGED <<model_loaded, loading_lock, loading_thread, last_access_time,
                   files, op, ret, ctx, answer, status, outcome, ghost>>

\* line 54 with _load_from_cache, lines 91-103: no file -> False; open or
\* pickle.load raising -> caught, False, self.model untouched; else self.model
\* is the unpickled handle and the answer is True
LM_Cache(t) ==
    /\ pc[t] = "lm_cache"
    /\ did' = [did EXCEPT ![t] = @ \cup {"read"}]
    /\ IF cache.kind = "valid"
       THEN /\ model' = cache.handle
            /\ Goto(t, "lm_mark")
       ELSE /\ UNCHANGED model
            /\ Goto(t, "lm_exists")
    /\ UNCHANGED <<model_loaded, loading_lock, loading_thread, last_access_time,
                   files, op, ret, ctx, answer, status, outcome, ghost>>

\* lines 55-57: self.model_loaded = True; return
LM_Mark(t) ==
    /\ pc[t] = "lm_mark"
    /\ model_loaded' = TRUE
    /\ outcome' = [outcome EXCEPT ![t] = "cache"]
    /\ Goto(t, "lm_unlock")
    /\ UNCHANGED <<model, loading_lock, loading_thread, last_access_time, files,
                   op, ret, ctx, answer, status, did, ghost>>

\* lines 60-62: if not os.path.exists(self.model_path): log, return
LM_Exists(t) ==
    /\ pc[t] = "lm_exists"
    /\ did' = [did EXCEPT ![t] = @ \cup {"exists"}]
    /\ IF source_exists
       THEN /\ Goto(t, "lm_load")
            /\ UNCHANGED outcome
       ELSE /\ Goto(t, "lm_unlock")
            /\ outcome' = [outcome EXCEPT ![t] = "missing"]
    /\ UNCHANGED <<manager, files, op, ret, ctx, answer, status, ghost>>

\* lines 65-67: self.model = load_model(self.model_path); the loader builds a
\* new model object or raises (import error, download, malformed weights)
LM_Load(t) ==
    /\ pc[t] = "lm_load"
    /\ did' = [did EXCEPT ![t] = @ \cup {"load"}]
    /\ loaderCalls' = loaderCalls + 1
    /\ \E ok \in BOOLEAN :
          IF ok
          THEN /\ model' = loaderCalls + 1
               /\ Goto(t, "lm_set")
               /\ UNCHANGED loaderFails
          ELSE /\ UNCHANGED model
               /\ Goto(t, "lm_except")
               /\ loaderFails' = loaderFails + 1
    /\ UNCHANGED <<model_loaded, loading_lock, loading_thread, last_access_time,
                   files, op, ret, ctx, answer, status, outcome, cacheWrites, calls, burst,
                   source0, cache0>>

\* lines 68-71: self.model_loaded = True
LM_Set(t) ==
    /\ pc[t] = "lm_set"
    /\ model_loaded' = TRUE
    /\ outcome' = [outcome EXCEPT ![t] = "loaded"]
    /\ Goto(t, "lm_save")
    /\ UNCHANGED <<model, loading_lock, loading_thread, last_access_time, files,
                   op, ret, ctx, answer, status, did, ghost>>

\* what open(cache_path, 'wb') and pickle.dump leave on disk
Written(r) ==
    CASE r = "ok" -> Pickled(model)
      [] r = "open_fails" -> cache
      [] r = "dump_fails" -> Corrupt

\* _save_to_cache without its try / except: the error reaches line 76
LM_SaveUncaught(t) ==
    /\ pc[t] = "lm_save"
    /\ did' = [did EXCEPT ![t] = @ \cup {"save"}]
    /\ cacheWrites' = cacheWrites + 1
    /\ \E r \in {"ok", "open_fails", "dump_fails"} :
          /\ cache' = Written(r)
          /\ Goto(t, IF r = "ok" THEN "lm_unlock" ELSE "lm_except")
    /\ UNCHANGED <<manager, source_exists, op, ret, ctx, answer, status, outcome, loaderCalls,
                   loaderFails, calls, burst, source0, cache0>>

\* line 74 with _save_to_cache, lines 105-114: the file is opened for writing
\* (truncated) and the model pickled into it; any error is caught and logged
LM_Save(t) ==
    /\ pc[t] = "lm_save"
    /\ cacheWrites' = cacheWrites + 1
    /\ \E r \in {"ok", "open_fails", "dump_fails"} :
          /\ cache' = Written(r)
          /\ did' = [did EXCEPT ![t] = @ \cup {"save"} \cup
                                         (IF r = "open_fails" THEN {"open_failed"} ELSE {})]
    /\ Goto(t, "lm_unlock")
    /\ UNCHANGED <<manager, source_exists, op, ret, ctx, answer, status, outcome, loaderCalls,
                   loaderFails, calls, burst, source0, cache0>>

\* an except clause that logs and raises again: the error leaves _load_model
LM_ExceptReraises(t) ==
    /\ pc[t] = "lm_except"
    /\ model_loaded' = FALSE
    /\ loading_lock' = NoThread
    /\ outcome' = [outcome EXCEPT ![t] = "error"]
    /\ IF t \in Callers
       THEN /\ Goto(t, "done")
            /\ ret' = [ret EXCEPT ![t] = Raised]
       ELSE /\ Goto(t, "finished")
            /\ UNCHANGED ret
    /\ UNCHANGED <<model, loading_thread, last_access_time, files, op, ctx, answer, status, did,
                   ghost>>

\* lines 76-78: except Exception: log; self.model_loaded = False
LM_Except(t) ==
    /\ pc[t] = "lm_except"
    /\ model_loaded' = FALSE
    /\ outcome' = [outcome EXCEPT ![t] = "error"]
    /\ Goto(t, "lm_unlock")
    /\ UNCHANGED <<model, loading_lock, loading_thread, last_access_time, files,
                   op, ret, ctx, answer, status, did, ghost>>

\* a lock released by hand on the failure paths only
LM_UnlockKept(t) ==
    /\ pc[t] = "lm_unlock"
    /\ loading_lock' = IF outcome[t] \in {"missing", "error"} THEN NoThread ELSE loading_lock
    /\ Goto(t, AfterLoad(t))
    /\ UNCHANGED <<model, model_loaded, loading_thread, last_access_time, files,
                   op, ret, ctx, answer, status, outcome, did, ghost>>

\* a lock released by hand on the success paths only
LM_UnlockLeaks(t) ==
    /\ pc[t] = "lm_unlock"
    /\ loading_lock' = IF outcome[t] \in {"missing", "error"} THEN loading_lock ELSE NoThread
    /\ Goto(t, AfterLoad(t))
    /\ UNCHANGED <<model, model_loaded, loading_thread, last_access_time, files,
                   op, ret, ctx, answer, status, outcome, did, ghost>>

\* line 46, leaving the with block: the lock is released on every path
LM_Unlock(t) ==
    /\ pc[t] = "lm_unlock"
    /\ loading_lock' = NoThread
    /\ Goto(t, AfterLoad(t))
    /\ UNCHANGED <<model, model_loaded, loading_thread, last_access_time, files,
                   op, ret, ctx, answer, status, outcome, did, ghost>>

LoadModel(t) ==
    \/ LM_Check(t)
    \/ LM_Lock(t)
    \/ LM_Recheck(t)
    \/ LM_Cache(t)
    \/ LM_Mark(t)
    \/ LM_Exists(t)
    \/ LM_Load(t)
    \/ LM_Set(t)
    \/ LM_Save(t)
    \/ LM_Except(t)
    \/ LM_Unlock(t)

\* -------------------------------------------------------------- get_model
\* the next call is get_model(); line 82: self.last_access_time = time.time()
CallGetModel(c) ==
    /\ pc[c] = "unissued"
    /\ c = calls + 1
    /\ calls' = c
    /\ burst' = (burst /\ Concurrent)
    /\ op' = [op EXCEPT ![c] = "get_model"]
    /\ ctx' = [ctx EXCEPT ![c] = Ctx]
    /\ last_access_time' = Time'
    /\ Goto(c, "gm_check")
    /\ UNCHANGED <<model, model_loaded, loading_lock, loading_thread, files, ret,
                   answer, status, outcome, did, loaderCalls, loaderFails, cacheWrites,
                   source0, cache0>>

\* a get_model() that backs off once an attempt found no source file
GM_CheckBacksOff(c) ==
    /\ pc[c] = "gm_check"
    /\ Goto(c, IF model_loaded \/ (\E t \in Threads : Missed(t))
               THEN "gm_ret" ELSE "lm_check")
    /\ UNCHANGED <<manager, files, op, ret, ctx, answer, status, outcome, did, ghost>>

\* lines 83-84: if not self.model_loaded: self._load_model()
GM_Check(c) ==
    /\ pc[c] = "gm_check"
    /\ Goto(c, IF model_loaded THEN "gm_ret" ELSE "lm_check")
    /\ UNCHANGED <<manager, files, op, ret, ctx, answer, status, outcome, did, ghost>>

\* line 85: return self.model
GM_Ret(c) ==
    /\ pc[c] = "gm_ret"
    /\ ret' = [ret EXCEPT ![c] = Returned(model)]
    /\ Goto(c, IF op[c] = "predict" THEN "p_model" ELSE "done")
    /\ UNCHANGED <<manager, files, op, ctx, answer, status, outcome, did, ghost>>

\* ------------------------------------------------ load_model_in_background
\* the next call is load_model_in_background() (startup hook, line 30 of
\* main.py; the /predict/ handler's background task, line 72 of main.py)
CallLoadModelInBackground(c) ==
    /\ pc[c] = "unissued"
    /\ c = calls + 1
    /\ calls' = c
    /\ burst' = (burst /\ Concurrent)
    /\ op' = [op EXCEPT ![c] = "load_model_in_background"]
    /\ ctx' = [ctx EXCEPT ![c] = Ctx]
    /\ Goto(c, "bg_check")
    /\ UNCHANGED <<manager, files, ret, answer, status, outcome, did, loaderCalls,
                   loaderFails, cacheWrites, source0, cache0>>

\* the check made with the loading lock held
BG_CheckLocked(c) ==
    /\ pc[c] = "bg_check"
    /\ loading_lock = NoThread
    /\ IF loading_thread # NoThread /\ IsAlive(loading_thread)
       THEN /\ Goto(c, "done")
            /\ ret' = [ret EXCEPT ![c] = Returned(NoModel)]
       ELSE /\ Goto(c, "bg_new")
            /\ UNCHANGED ret
    /\ UNCHANGED <<manager, files, op, ctx, answer, status, outcome, did, ghost>>

\* lines 32-34: if self.loading_thread is not None and
\* self.loading_thread.is_alive(): log, return
BG_Check(c) ==
    /\ pc[c] = "bg_check"
    /\ IF loading_thread # NoThread /\ IsAlive(loading_thread)
       THEN /\ Goto(c, "done")
            /\ ret' = [ret EXCEPT ![c] = Returned(NoModel)]
       ELSE /\ Goto(c, "bg_new")
            /\ UNCHANGED ret
    /\ UNCHANGED <<manager, files, op, ctx, answer, status, outcome, did, ghost>>

\* a new load that first resets the manager
BG_NewResets(c) ==
    /\ pc[c] = "bg_new"
    /\ loading_thread' = Worker(c)
    /\ model_loaded' = FALSE
    /\ model' = NoModel
    /\ pc' = [pc EXCEPT ![c] = "bg_daemon", ![Worker(c)] = "new"]
    /\ UNCHANGED <<loading_lock, last_access_time, files, op, ret, ctx, answer, status,
                   outcome, did, ghost>>

\* line 36: self.loading_thread = threading.Thread(target=self._load_model)
BG_New(c) ==
    /\ pc[c] = "bg_new"
    /\ loading_thread' = Worker(c)
    /\ pc' = [pc EXCEPT ![c] = "bg_daemon", ![Worker(c)] = "new"]
    /\ UNCHANGED <<model, model_loaded, loading_lock, last_access_time, files, op,
                   ret, ctx, answer, status, outcome, did, ghost>>

\* line 37: self.loading_thread.daemon = True; the field is read again, and
\* Thread.daemon raises RuntimeError once that thread has been started
BG_Daemon(c) ==
    /\ pc[c] = "bg_daemon"
    /\ IF Started(loading_thread)
       THEN /\ Goto(c, "done")
            /\ ret' = [ret EXCEPT ![c] = Raised]
       ELSE /\ Goto(c, "bg_start")
            /\ UNCHANGED ret
    /\ UNCHANGED <<manager, files, op, ctx, answer, status, outcome, did, ghost>>

\* lines 38-39: self.loading_thread.start(); the field is read again, and
\* Thread.start raises RuntimeError for a thread started before
BG_Start(c) ==
    /\ pc[c] = "bg_start"
    /\ IF Started(loading_thread)
       THEN /\ Goto(c, "done")
            /\ ret' = [ret EXCEPT ![c] = Raised]
       ELSE /\ pc' = [pc EXCEPT ![c] = "done", ![loading_thread] = "lm_check"]
            /\ ret' = [ret EXCEPT ![c] = Returned(NoModel)]
    /\ UNCHANGED <<manager, files, op, ctx, answer, status, outcome, did, ghost>>

\* --------------------------------------------------------- is_model_loaded
\* a query that also stamps the access time
IsModelLoadedTouches ==
    /\ answer' = IF model_loaded THEN "true" ELSE "false"
    /\ last_access_time' = Time
    /\ UNCHANGED <<model, model_loaded, loading_lock, loading_thread, files, pc, op,
                   ret, ctx, status, outcome, did, ghost>>

\* lines 87-89: return self.model_loaded (the /status handler, line 62 of
\* main.py, and the /predict/ handler, line 70 of main.py); one statement, on
\* any thread at any time
IsModelLoaded ==
    /\ answer' = IF model_loaded THEN "true" ELSE "false"
    /\ UNCHANGED <<manager, files, pc, op, ret, ctx, status, outcome, did, ghost>>

\* ------------------------------------------- analyze_image (POST /predict/)
\* main.py lines 66-76: a request arrives once the startup hook has returned;
\* if not model_manager.is_model_loaded(): add the background task and raise
\* HTTPException(503).  The task, load_model_in_background, runs on the
\* request's pool thread after the response is sent.
\* a handler that asks get_model() without asking is_model_loaded() first
CallPredictUnchecked(c) ==
    /\ pc[1] = "done"
    /\ pc[c] = "unissued"
    /\ c = calls + 1
    /\ calls' = c
    /\ burst' = (burst /\ Concurrent)
    /\ op' = [op EXCEPT ![c] = "predict"]
    /\ ctx' = [ctx EXCEPT ![c] = Ctx]
    /\ Goto(c, "p_image")
    /\ UNCHANGED <<manager, files, ret, answer, status, outcome, did, loaderCalls,
                   loaderFails, cacheWrites, source0, cache0>>

CallPredict(c) ==
    /\ pc[1] = "done"
    /\ pc[c] = "unissued"
    /\ c = calls + 1
    /\ calls' = c
    /\ burst' = (burst /\ Concurrent)
    /\ op' = [op EXCEPT ![c] = "predict"]
    /\ ctx' = [ctx EXCEPT ![c] = Ctx]
    /\ IF model_loaded
       THEN /\ Goto(c, "p_image")
            /\ UNCHANGED status
       ELSE /\ status' = [status EXCEPT ![c] = Response("503", "not_loaded")]
            /\ Goto(c, "bg_check")
    /\ UNCHANGED <<manager, files, ret, answer, outcome, did, loaderCalls,
                   loaderFails, cacheWrites, source0, cache0>>

\* main.py lines 78-92: read and crop the upload (an exception is answered
\* 500 by lines 103-105); a live capture is streamed back without the model
\* (lines 85-89); otherwise model_manager.get_model() is entered (line 92 of
\* main.py, line 82 of model_manager.py)
P_Image(c) ==
    /\ pc[c] = "p_image"
    /\ \E upload \in {"ok", "bad", "live"} :
          CASE upload = "bad" ->
                 /\ status' = [status EXCEPT ![c] = Response("500", "image")]
                 /\ Goto(c, "done")
                 /\ UNCHANGED last_access_time
            [] upload = "live" ->
                 /\ status' = [status EXCEPT ![c] = Response("200", "live")]
                 /\ Goto(c, "done")
                 /\ UNCHANGED last_access_time
            [] upload = "ok" ->
                 /\ last_access_time' = Time
                 /\ Goto(c, "gm_check")
                 /\ UNCHANGED status
    /\ UNCHANGED <<model, model_loaded, loading_lock, loading_thread, files, op,
                   ret, ctx, answer, outcome, did, ghost>>

\* main.py lines 93-105: if model is None: raise HTTPException(500), which
\* the except clause of line 103 re-raises as a 500; otherwise predict, whose
\* exception is answered 500 too
P_Respond(c) ==
    /\ pc[c] = "p_model"
    /\ IF ret[c].handle = NoModel
       THEN status' = [status EXCEPT ![c] = Response("500", "no_model")]
       ELSE \E ok \in BOOLEAN :
              status' = [status EXCEPT ![c] =
                           IF ok THEN Response("200", "ok")
                                 ELSE Response("500", "predict")]
    /\ Goto(c, "done")
    /\ UNCHANGED <<manager, files, op, ret, ctx, answer, outcome, did, ghost>>

\* ------------------------------------------------------------ environment
\* the operator provisions the weights file at model_path
PlaceFile ==
    /\ ~source_exists
    /\ source_exists' = TRUE
    /\ UNCHANGED <<manager, cache, pc, op, ret, ctx, answer, status, outcome, did, ghost>>

Next ==
    \/ \E t \in Threads : LoadModel(t)
    \/ \E c \in Callers : CallGetModel(c)
    \/ \E c \in Callers : GM_Check(c)
    \/ \E c \in Callers : GM_Ret(c)
    \/ \E c \in Callers : CallLoadModelInBackground(c)
    \/ \E c \in Callers : BG_Check(c)
    \/ \E c \in Callers : BG_New(c)
    \/ \E c \in Callers : BG_Daemon(c)
    \/ \E c \in Callers : BG_Start(c)
    \/ IsModelLoaded
    \/ PlaceFile

Spec == Init /\ [][Next]_vars

\* The manager as the web application drives it (main.py): the startup hook
\* of lines 26-35 calls load_model_in_background() and returns before any
\* request is accepted; afterwards the traffic is /predict/ and /status.
Startup == CallLoadModelInBackground(1)

ServeNext ==
    \/ Startup
    \/ \E c \in Callers : CallPredict(c)
    \/ \E c \in Callers : P_Image(c)
    \/ \E c \in Callers : P_Respond(c)
    \/ \E t \in Threads : LoadModel(t)
    \/ \E c \in Callers : GM_Check(c)
    \/ \E c \in Callers : GM_Ret(c)
    \/ \E c \in Callers : BG_Check(c)
    \/ \E c \in Callers : BG_New(c)
    \/ \E c \in Callers : BG_Daemon(c)
    \/ \E c \in Callers : BG_Start(c)
    \/ IsModelLoaded
    \/ PlaceFile

ServeSpec == Init /\ [][ServeNext]_vars

\* a statement of thread t: a caller runs its call to the end, a load thread
\* runs _load_model
ThreadStep(t) ==
    \/ LoadModel(t)
    \/ t \in Callers /\ (GM_Check(t) \/ GM_Ret(t) \/ BG_Check(t) \/ BG_New(t)
                            \/ BG_Daemon(t) \/ BG_Start(t))

\* The interpreter schedules every thread that can run: no thread that stays
\* runnable is left waiting forever.  When calls arrive is up to the callers.
FairSpec == Init /\ [][Next]_vars /\ \A t \in Threads : WF_vars(ThreadStep(t))
\* ---------------------------------------------------------------- claims
Failed == {"missing", "error"}
GetModelDone(c) == op[c] = "get_model" /\ pc[c] = "done"
BackgroundDone(c) == op[c] = "load_model_in_background" /\ pc[c] = "done"
Alive == {w \in Workers : IsAlive(w)}
\* every call issued has returned and no load thread runs
Quiescent == (\A c \in Callers : pc[c] \in {"unissued", "done"}) /\ Alive = {}
\* N >= 2 calls were issued concurrently while unloaded, with no cache file, and are over
BurstOver == burst /\ calls >= 2 /\ cache0 = Absent /\ Quiescent

\* C1 as stated: whenever N >= 2 get_model / load_model_in_background calls
\* are issued concurrently while unloaded and without a cache file, the
\* Model Loader has been invoked exactly once when they are over.
C1_ExactlyOnceAlways == BurstOver => loaderCalls = 1

\* C1, amended: the Model Loader succeeds at most once in any execution, and
\* when N >= 2 calls are issued concurrently while unloaded, without a cache
\* file, with the source file present and no loader invocation raising, the
\* loader has been invoked exactly once when they are over.
C1_SingleFlight ==
    /\ loaderCalls - loaderFails <= 1
    /\ (BurstOver /\ source0 /\ loaderFails = 0) => loaderCalls = 1

C1_Witness ==
    /\ BurstOver /\ source0 /\ loaderFails = 0 /\ loaderCalls = 1 /\ model_loaded
    /\ \E c \in Callers : outcome[c] = "skip" /\ "read" \notin did[c] /\ ret[c] = Returned(model)

\* C2: in every reachable state model_loaded implies model is not None.
C2_LoadedImpliesModel == model_loaded => model # NoModel

C2_Witness ==
    /\ model_loaded /\ model # NoModel /\ loaderFails > 0
    /\ cache0 = Corrupt /\ cache.kind # "valid" /\ cacheWrites = 1

\* C3: once model_loaded is true it stays true and model is never assigned
\* again, whatever calls follow and whatever the cache write does.
C3_LoadedStable == [][model_loaded => (model_loaded' /\ model' = model)]_vars

C3_Witness ==
    /\ model_loaded /\ cacheWrites = 1 /\ cache.kind # "valid"
    /\ \E c \in Callers : ctx[c].loaded /\ pc[c] = "done"
    /\ Quiescent

\* C4 as stated: at most one background load thread is alive at any instant.
C4_AtMostOneLoadThread == Cardinality(Alive) <= 1

Assigned(t) == pc[t] \in {"lm_mark", "lm_set"} \/ outcome[t] \in {"cache", "loaded"}

C6_RetryAlwaysLoads ==
    \A c \in Callers : (GetModelDone(c) /\ ctx[c].source /\ ctx[c].missed /\ cache0 = Absent) =>
        (ret[c].handle # NoModel /\ model_loaded /\ cache.kind # "absent")

\* C6, amended: a load attempt that fails for want of the source file (no
\* cache) ends with model_loaded false, model None and the lock released;
\* a get_model() issued afterwards with the source file in place returns a
\* handle and leaves model_loaded true provided the Model Loader does not
\* raise in its attempt, and a cache file is there once the attempt that
\* loaded the model has run its cache write, unless the cache file could not
\* be opened for writing.
C6_RetryAfterMissingSource ==
    /\ \A t \in Threads : (pc[t] = "lm_unlock" /\ outcome[t] = "missing") =>
           (~model_loaded /\ model = NoModel /\ did[t] = {"read", "exists"})
    /\ \A t \in Threads : Missed(t) => loading_lock # t
    /\ \A c \in Callers :
           (GetModelDone(c) /\ ctx[c].source /\ ctx[c].missed /\ cache0 = Absent
                /\ outcome[c] # "error") =>
               /\ ret[c].st = "returned" /\ ret[c].handle # NoModel /\ model_loaded
               /\ cache.kind = "absent" =>
                      \E t \in Threads : pc[t] = "lm_save" \/ "open_failed" \in did[t]

C6_Witness ==
    \E c \in Callers :
        /\ GetModelDone(c) /\ ctx[c].source /\ ctx[c].missed /\ ~ctx[c].loaded /\ ~ctx[c].locked
        /\ cache0 = Absent /\ ~source0
        /\ outcome[c] = "loaded" /\ did[c] = {"read", "exists", "load", "save"}
        /\ ret[c] = Returned(model) /\ model # NoModel /\ model_loaded
        /\ cache = Pickled(model)
        /\ \E d \in Callers : GetModelDone(d) /\ outcome[d] = "missing" /\ ret[d] = Returned(NoModel)

\* C7: with a valid cache file in place a load attempt reads the cache,
\* takes the cached handle and marks the manager loaded without checking the
\* source file or invoking the Model Loader, and get_model() returns that
\* handle, whether or not the source file exists.
C7_CacheFallback ==
    cache0.kind = "valid" =>
        /\ loaderCalls = 0 /\ cacheWrites = 0 /\ cache = cache0
        /\ \A t \in Threads : did[t] \subseteq {"read"}
        /\ \A t \in Threads : "read" \in did[t] =>
               /\ model = cache0.handle
               /\ pc[t] = "lm_mark" \/ (outcome[t] = "cache" /\ model_loaded)
        /\ \A c \in Callers : GetModelDone(c) => ret[c] = Returned(cache0.handle)

C7_Witness ==
    /\ cache0 = Pickled(PreHandle) /\ ~source_exists
    /\ \E c \in Callers : /\ GetModelDone(c) /\ outcome[c] = "cache" /\ did[c] = {"read"}
                          /\ ret[c] = Returned(PreHandle)
    /\ model_loaded /\ model = PreHandle

\* C8: is_model_loaded() returns the current model_loaded flag and changes
\* nothing of the manager, the files or any thread, and it can run while
\* another thread holds the loading lock.
C8_PureQuery ==
    /\ [][answer' # answer =>
            /\ answer' = (IF model_loaded THEN "true" ELSE "false")
            /\ UNCHANGED <<manager, files, pc>>]_vars
    /\ [](loading_lock # NoThread => ENABLED IsModelLoaded)

C8_Witness ==
    /\ answer = "true"
    /\ \E t \in Threads : pc[t] = "lm_save" /\ loading_lock = t

\* C9: a load_model_in_background() call made while model_loaded is true,
\* and the thread it starts, invoke no Model Loader, read and write no cache
\* and leave model and model_loaded as they are.
C9_IdempotentWhenLoaded ==
    [][\A c \in Callers :
          (/\ op'[c] = "load_model_in_background" /\ ctx'[c].loaded
           /\ (pc'[c] # pc[c] \/ pc'[Worker(c)] # pc[Worker(c)])) =>
              /\ model_loaded /\ UNCHANGED <<model, model_loaded, cache>>
              /\ UNCHANGED <<loaderCalls, cacheWrites>>
              /\ did'[Worker(c)] = {}]_vars

C9_Witness ==
    \E c \in Callers :
        /\ BackgroundDone(c) /\ ctx[c].loaded /\ ret[c] = Returned(NoModel)
        /\ pc[Worker(c)] = "finished" /\ outcome[Worker(c)] = "skip"
        /\ model_loaded

BG_Step(c) == BG_Check(c) \/ BG_New(c) \/ BG_Daemon(c) \/ BG_Start(c)

\* C10: load_model_in_background() never waits for and never takes the
\* loading lock: each of its statements can run while another thread holds
\* the lock; only the thread it starts blocks on it.
C10_BackgroundNeverBlocks ==
    \A c \in Callers : op[c] = "load_model_in_background" =>
        /\ loading_lock # c
        /\ pc[c] # "done" => ENABLED BG_Step(c)

C10_Witness ==
    \E c \in Callers :
        /\ BackgroundDone(c) /\ ctx[c].locked /\ ret[c] = Returned(NoModel)
        /\ pc[Worker(c)] = "lm_lock"
        /\ \E d \in Callers : op[d] = "get_model" /\ loading_lock = d /\ pc[d] = "lm_load"

\* C12: the /predict/ handler answers every "model not available" condition
\* with 503 and never with 500.  A request that finds is_model_loaded() false
\* is answered 503 at once, its background load is scheduled, and it never
\* enters get_model() (no access stamp of its own, no load attempt, no wait
\* for the lock); a request to which get_model() handed null is not answered
\* 500 for it, and no response at all is a 500 caused by a missing model.
BgLabels == {"bg_check", "bg_new", "bg_daemon", "bg_start", "done"}

CriticalSection == {"lm_recheck", "lm_cache", "lm_mark", "lm_exists", "lm_load",
                    "lm_set", "lm_save", "lm_except", "lm_unlock"}
InCS(t) == pc[t] \in CriticalSection

\* C13: at most one thread is inside the load critical section at any time,
\* and it is the thread that holds the loading lock; so the cache reads,
\* source-file checks, Model Loader invocations and cache writes of
\* different load procedures never overlap.
C13_MutualExclusion ==
    /\ Cardinality({t \in Threads : InCS(t)}) <= 1
    /\ \A t \in Threads : InCS(t) <=> loading_lock = t

\* one thread runs the Model Loader while another waits at the lock
C13_Witness ==
    \E t, u \in Threads :
        /\ t # u
        /\ pc[t] = "lm_load" /\ loading_lock = t
        /\ pc[u] = "lm_lock"

\* C16: double check under the lock.  A thread that acquires the lock when
\* the holder before it has completed a successful load sees model_loaded
\* true at line 47 and returns: it reads no cache file, checks no source
\* file, invokes no Model Loader and writes no cache.
C16_DoubleCheck ==
    /\ \A t \in Threads :
           (loading_lock = t /\ model_loaded /\ outcome[t] \notin {"cache", "loaded"}) =>
               /\ pc[t] \in {"lm_recheck", "lm_unlock"}
               /\ did[t] = {}
    /\ \A t \in Threads : outcome[t] = "skip" => did[t] = {}

\* a thread that waited for the lock leaves by the double check after the
\* single Model Loader invocation of another thread
C16_Witness ==
    \E t \in Threads :
        /\ pc[t] = "lm_unlock" /\ outcome[t] = "skip" /\ did[t] = {}
        /\ loaderCalls = 1 /\ cacheWrites = 1 /\ model_loaded
        /\ \E u \in Threads : u # t /\ outcome[u] = "loaded"

\* C18: a cache file that cannot be unpickled is a miss.  The attempt that
\* read it is not marked as a cache hit, has assigned nothing to model, goes
\* on to the source-file check and, the file being there, to the Model
\* Loader in the same attempt; get_model() never raises.
C18_CorruptCacheIsMiss ==
    /\ \A t \in Threads :
           (cache = Corrupt /\ loading_lock = t /\ "read" \in did[t]
                /\ "save" \notin did[t]) =>
               /\ pc[t] # "lm_mark" /\ outcome[t] # "cache"
               /\ pc[t] \in {"lm_exists", "lm_load"} => (model = NoModel /\ ~model_loaded)
               /\ pc[t] # "lm_exists" =>
                      /\ "exists" \in did[t]
                      /\ pc[t] = "lm_load" \/ "load" \in did[t] \/ outcome[t] = "missing"
    /\ \A c \in Callers : op[c] = "get_model" => ret[c].st # "raised"

\* with a corrupt cache file in place a get_model() has read it, checked the
\* source file, run the Model Loader and returned the loaded handle
C18_Witness ==
    \E c \in Callers :
        /\ cache0 = Corrupt /\ GetModelDone(c)
        /\ outcome[c] = "loaded" /\ {"read", "exists", "load"} \subseteq did[c]
        /\ ret[c] = Returned(model) /\ model # NoModel /\ model_loaded

\* C19: a failed cache write is not fatal.  Once an attempt has run its cache
\* write, whether or not the write succeeded, model_loaded is true, model is
\* the handle the Model Loader produced, and the get_model() that made the
\* attempt returns that handle.
C19_CacheWriteFailureNonFatal ==
    \A t \in Threads :
        "save" \in did[t] =>
            /\ model_loaded /\ outcome[t] = "loaded"
            /\ model \in 1..loaderCalls
            /\ (t \in Callers /\ pc[t] = "done") => ret[t] = Returned(model)

\* the cache write of a get_model() failed (no usable cache file is left) and
\* the call returned the loaded handle
C19_Witness ==
    \E c \in Callers :
        /\ GetModelDone(c) /\ "save" \in did[c]
        /\ cache.kind # "valid"
        /\ model_loaded /\ model # NoModel /\ ret[c] = Returned(model)

\* C20: with no usable cache and the source file absent, the attempt returns
\* without invoking the Model Loader and without writing the cache, leaves
\* model_loaded false and model None and releases the lock; and every later
\* get_model() that still finds the manager unloaded runs the attempt again
\* (there is no backoff).
C20_SourceMissing ==
    /\ \A t \in Threads : outcome[t] = "missing" =>
           /\ "load" \notin did[t] /\ "save" \notin did[t]
           /\ pc[t] = "lm_unlock" => (~model_loaded /\ model = NoModel)
           /\ pc[t] # "lm_unlock" => loading_lock # t
    /\ \A c \in Callers :
           (GetModelDone(c) /\ ctx[c].missed /\ ~model_loaded) =>
               /\ {"read", "exists"} \subseteq did[c]
               /\ outcome[c] \in {"missing", "error"}

\* two get_model() calls in a row, the second issued after the first had
\* returned None for want of the source file, each made its own attempt
C20_Witness ==
    \E c, d \in Callers :
        /\ c # d /\ GetModelDone(c) /\ GetModelDone(d)
        /\ ctx[d].missed /\ ~ctx[d].locked
        /\ outcome[c] = "missing" /\ outcome[d] = "missing"
        /\ did[d] = {"read", "exists"}
        /\ ret[c] = Returned(NoModel) /\ ret[d] = Returned(NoModel)
        /\ loaderCalls = 0 /\ cacheWrites = 0 /\ loading_lock = NoThread

\* C14: every write to model, model_loaded and loading_thread is made by a
\* thread that holds the loading lock: a step that changes one of the three
\* is a step of the lock's holder.
C14_WritesUnderLock ==
    [][(model' # model \/ model_loaded' # model_loaded
            \/ loading_thread' # loading_thread) =>
           \E t \in Threads : loading_lock = t /\ pc'[t] # pc[t]]_vars

\* C15 as stated: the cache file is read without holding the loading lock:
\* the thread about to run _load_from_cache does not hold it.
C15_CacheReadUnlocked ==
    \A t \in Threads : pc[t] = "lm_cache" => loading_lock # t

\* C15, amended: the cache file is read only by the thread that holds the
\* loading lock, as it is written; no state has one load procedure reading
\* the cache file while another writes it, and no read follows a write.
C15_CacheReadUnderLock ==
    /\ \A t \in Threads : pc[t] \in {"lm_cache", "lm_save"} => loading_lock = t
    /\ \A t, u \in Threads : ~(pc[t] = "lm_cache" /\ pc[u] = "lm_save")
    /\ \A t \in Threads : pc[t] = "lm_cache" => cacheWrites = 0

\* a thread reads an existing cache file, lock held, while the thread of a
\* second load procedure waits at the lock
C15_Witness ==
    \E t, u \in Threads :
        /\ t # u
        /\ pc[t] = "lm_cache" /\ loading_lock = t /\ cache # Absent
        /\ pc[u] = "lm_lock"

\* C17: load_model_in_background() spawns a load thread only when the model
\* is not loaded and no load is running, background or synchronous: a call
\* issued when the model is already loaded, or while a load holds the
\* loading lock, creates no thread and leaves loading_thread as it was.
C17_SpawnsOnlyWhenIdle ==
    \A c \in Callers :
        (op[c] = "load_model_in_background" /\ (ctx[c].loaded \/ ctx[c].locked)) =>
            /\ pc[Worker(c)] = "unborn"
            /\ loading_thread # Worker(c)

\* the source file or a valid cache file is there from the start
Loadable == source0 \/ cache0.kind = "valid"

\* C11: eventual readiness.  If the source file exists (or a valid cache
\* exists), the Model Loader never raises and threads are scheduled fairly,
\* then once load_model_in_background() or get_model() has been called the
\* manager eventually has model_loaded true, every get_model() in progress
\* eventually returns, and each returns the same non-null handle, the
\* manager's.
C11_EventualReadiness ==
    (Loadable /\ [](loaderFails = 0)) =>
        /\ (calls >= 1) ~> model_loaded
        /\ \A c \in Callers : (op[c] = "get_model") ~> GetModelDone(c)
        /\ [](\A c \in Callers :
                 GetModelDone(c) => (ret[c] = Returned(model) /\ model # NoModel))

\* two get_model() calls that overlapped while unloaded have both returned
\* the one handle the single Model Loader invocation produced
C11_Witness ==
    /\ Loadable /\ loaderFails = 0 /\ loaderCalls = 1 /\ model_loaded
    /\ \A c \in Callers :
           /\ GetModelDone(c) /\ ~ctx[c].loaded
           /\ ret[c] = Returned(model) /\ model # NoModel
    /\ \E c \in Callers : outcome[c] = "skip" /\ ctx[c].locked

\* C21: the manager never deletes the cache file and never overwrites a
\* cache file it was able to read.  A cache write is made only inside a load
\* attempt whose own cache read failed or found no file, and only after the
\* Model Loader succeeded in that attempt; over any execution the Model
\* Loader succeeds at most once and the cache write is attempted at most once.
C21_CacheNeverInvalidated ==
    /\ cache0 # Absent => cache # Absent
    /\ cache0.kind = "valid" => (cache = cache0 /\ cacheWrites = 0)
    /\ \A t \in Threads :
           (pc[t] = "lm_save" \/ "save" \in did[t]) =>
               /\ {"read", "load"} \subseteq did[t]
               /\ outcome[t] = "loaded" /\ model_loaded
               /\ model \in 1..loaderCalls
               /\ pc[t] = "lm_save" => cache.kind # "valid"
    /\ loaderCalls - loaderFails <= 1
    /\ cacheWrites <= 1
    /\ Cardinality({t \in Threads : "save" \in did[t]}) = cacheWrites

\* after one attempt in which the Model Loader raised, a second attempt read
\* the corrupt cache file, loaded the model and replaced the file
C21_Witness ==
    \E t \in Threads :
        /\ cache0 = Corrupt /\ "save" \in did[t] /\ "read" \in did[t]
        /\ cache = Pickled(model) /\ model_loaded
        /\ loaderCalls = 2 /\ loaderFails = 1 /\ cacheWrites = 1

\* C22: get_model() never exposes a handle while the manager is unloaded:
\* under every interleaving with a concurrent load, a get_model() that has
\* returned a non-null handle returned it with model_loaded true.
\* (model_loaded never goes back to false, so a call that has returned a
\* handle while model_loaded is still false returned it unloaded.)
C22_HandleOnlyWhenLoaded ==
    \A c \in Callers :
        (GetModelDone(c) /\ ret[c].st = "returned" /\ ret[c].handle # NoModel)
            => model_loaded

LoadLabels == {"lm_check", "lm_lock"} \cup CriticalSection

\* C23: through the serving layer get_model() never performs a synchronous
\* load.  A /predict/ request enters get_model() only after it has seen
\* is_model_loaded() true, finds model_loaded true at line 83 and never
\* enters _load_model; every load attempt is made by a thread that
\* load_model_in_background() spawned, never by a request's own thread.
C23_NoSynchronousLoad ==
    /\ \A c \in Callers :
           /\ pc[c] \notin LoadLabels
           /\ did[c] = {} /\ outcome[c] = "none" /\ loading_lock # c
           /\ (op[c] = "predict" /\ pc[c] \in {"p_image", "gm_check", "gm_ret", "p_model"})
                  => (ctx[c].loaded /\ model_loaded)
    /\ \A t \in Threads : (pc[t] \in LoadLabels \/ did[t] # {}) => t \in Workers
    /\ \A w \in Workers : pc[w] # "unborn" => op[w - MaxCalls] \in {"load_model_in_background", "predict"}

\* a request has been served with the model that the startup hook's thread
\* loaded: its get_model() returned the handle without any attempt of its own
C23_Witness ==
    \E c \in Callers :
        /\ op[c] = "predict" /\ pc[c] = "done" /\ ctx[c].loaded
        /\ status[c] = Response("200", "ok")
        /\ ret[c] = Returned(model) /\ model # NoModel
        /\ did[c] = {} /\ outcome[c] = "none"
        /\ outcome[Worker(1)] \in {"loaded", "cache"}
====
